---- MODULE Spec2Model ----
(***************************************************************************)
(* pod-store: the in-memory store (StorePodcasts / Podcast /               *)
(* PodcastEpisodes / Episode), the feed refresh, the filter classes, the   *)
(* encrypted store file handler and the save_store_changes command         *)
(* wrapper, as state machines.                                             *)
(*                                                                         *)
(* Python values are encoded as follows.                                   *)
(*   str            a sequence of one-character strings where the code     *)
(*                  looks inside the string (feed ids, episode numbers),   *)
(*                  a TLA+ string where it only compares it (titles, tags) *)
(*   None           the empty sequence <<>>; an optional value x is <<x>>  *)
(*   datetime       a natural number (a reading of the clock)              *)
(*   dict           a function whose DOMAIN is the set of keys             *)
(*   object ref     the address (a natural number) of a Podcast object     *)
(***************************************************************************)
EXTENDS Integers, Sequences, FiniteSets, TLC

VARIABLES
    podcasts,   \* StorePodcasts._podcasts: key |-> Podcast object
    now,        \* the clock read by datetime.utcnow()
    last,       \* the last model-layer call: its name, arguments and outcome
    query,      \* the last filter built and resolved, with its outcome
    disk,       \* the encrypted handler's directory: store file and .tmp file
    wr,         \* the write_data call in progress (or finished) on `disk`
    plainFile,  \* the store file shared by concurrent command invocations
    inv,        \* per invocation of a save_store_changes command: position and Store
    reverse_episode_order
                \* addresses of the Podcast objects on which a caller has set
                \* the attribute reverse_episode_order to True

vars == <<podcasts, now, last, query, disk, wr, plainFile, inv, reverse_episode_order>>

storeVars == <<podcasts, now, last>>
fileVars == <<disk, wr>>
invVars == <<plainFile, inv>>

----------------------------------------------------------------------------
(* Bounds of the model *)

\* longest feed listing the feed-fetch collaborator returns
MaxFeedLen == 2
\* cap on the length of an episode's or podcast's tag list
MaxTags == 2

----------------------------------------------------------------------------
(* Python helpers *)

None == <<>>

Some(x) == <<x>>

Range(s) == {s[i] : i \in 1..Len(s)}

Max(S) == CHOOSE x \in S : \A y \in S : y <= x

\* [t for t in tags if t != tag_name]
RECURSIVE Without(_, _)
Without(tags, tag_name) ==
    IF tags = <<>> THEN <<>>
    ELSE IF Head(tags) = tag_name THEN Without(Tail(tags), tag_name)
    ELSE <<Head(tags)>> \o Without(Tail(tags), tag_name)

Digits == <<"0", "1", "2", "3", "4", "5", "6", "7", "8", "9">>

\* str(n) for a natural number n
RECURSIVE Str(_)
Str(n) == IF n < 10 THEN <<Digits[n + 1]>> ELSE Str(n \div 10) \o <<Digits[(n % 10) + 1]>>

\* s.rjust(width, "0")
RECURSIVE RJustZero(_, _)
RJustZero(s, width) == IF Len(s) >= width THEN s ELSE RJustZero(<<"0">> \o s, width)

----------------------------------------------------------------------------
(* Feed entries, as feedparser hands them to Podcast.refresh *)

AudioLink == [href |-> "ep.mp3", type |-> "audio/mpeg"]

OggLink == [href |-> "ep.ogg", type |-> "audio/ogg"]

Entry(rss_id, title, itunes_episode, links, published_parsed) ==
    [id |-> rss_id, title |-> title, itunes_episode |-> itunes_episode,
     links |-> links, published_parsed |-> published_parsed]

EntryA == Entry(<<"a">>, "t1", None, <<OggLink, AudioLink>>, 1)

\* a re-publication of "a" under a longer feed id, with another title and time
EntryXA == Entry(<<"x", "/", "a">>, "t2", None, <<AudioLink>>, 2)

\* "b" carrying an explicit episode number
EntryB7 == Entry(<<"b">>, "t2", <<"7">>, <<AudioLink>>, 2)

\* an entry with no enclosure of an allowed audio type
BadEntry == Entry(<<"c">>, "t1", None, <<OggLink>>, 1)

Entries == {EntryA, EntryXA, EntryB7, BadEntry}

SeqsUpTo(S, n) == UNION {[1..k -> S] : k \in 0..n}

\* a listing that grew at the front by a re-publication of "a" and an entry
\* that cannot be normalized
RepublishedFeed == <<EntryXA, BadEntry, EntryA>>

Feeds == SeqsUpTo(Entries, MaxFeedLen) \cup {RepublishedFeed}

----------------------------------------------------------------------------
(* pod_store/podcasts.py: Podcast and PodcastEpisodes *)

\* rss_id.split("/")[-1]
ParseStoreEpisodeId(rss_id) ==
    LET slashes == {i \in 1..Len(rss_id) : rss_id[i] = "/"}
    IN  IF slashes = {} THEN rss_id
        ELSE SubSeq(rss_id, Max(slashes) + 1, Len(rss_id))

\* episode_number.rjust(4, "0")
PadEpisodeNumber(episode_number) == RJustZero(episode_number, 4)

\* [u["href"] for u in links if u["type"] in ("audio/mpeg", "audio/mp3")]
RECURSIVE AudioUrls(_)
AudioUrls(links) ==
    IF links = <<>> THEN <<>>
    ELSE (IF Head(links).type \in {"audio/mpeg", "audio/mp3"}
          THEN <<Head(links).href>> ELSE <<>>) \o AudioUrls(Tail(links))

\* whether _parse_episode_feed_data returns (the [0] of an empty list raises)
EntryParses(raw) == AudioUrls(raw.links) # <<>>

\* Podcast._parse_episode_feed_data, for an entry it can parse
ParseEpisodeFeedData(raw) ==
    [title |-> raw.title,
     id |-> ParseStoreEpisodeId(raw.id),
     url |-> Head(AudioUrls(raw.links)),
     created_at |-> raw.published_parsed,
     episode_number |-> raw.itunes_episode]

\* Mutant: without a hint the position is counted from the front
EpisodeNumberFromFront(episode_data, number_of_entries, entry_number) ==
    PadEpisodeNumber(
        IF episode_data.episode_number # None
        THEN episode_data.episode_number
        ELSE Str(entry_number + 1))

\* refresh, lines 199-202: the hint, or the position counted from the end
EpisodeNumber(episode_data, number_of_entries, entry_number) ==
    PadEpisodeNumber(
        IF episode_data.episode_number # None
        THEN episode_data.episode_number
        ELSE Str(number_of_entries - entry_number))

\* PodcastEpisodes.add: Episode(podcast=self._podcast, tags=["new"], **data)
NewEpisode(self, data) ==
    [podcast |-> self,
     id |-> data.id,
     episode_number |-> data.episode_number,
     title |-> data.title,
     url |-> data.url,
     created_at |-> data.created_at,
     tags |-> <<"new">>,
     downloaded_at |-> None]

\* Mutant: the update builds the episode anew, as add does
UpdateEpisodeAnew(episode, data) ==
    [podcast |-> episode.podcast,
     id |-> data.id,
     episode_number |-> data.episode_number,
     title |-> data.title,
     url |-> data.url,
     created_at |-> data.created_at,
     tags |-> <<"new">>,
     downloaded_at |-> None]

\* Episode.update: setattr for every key of the data
UpdateEpisode(episode, data) ==
    [episode EXCEPT
        !.id = data.id,
        !.episode_number = data.episode_number,
        !.title = data.title,
        !.url = data.url,
        !.created_at = data.created_at]

\* Mutant: an episode found is tagged "new" again when it is updated
UpsertRetag(episodes, self, data) ==
    IF data.id \in DOMAIN episodes
    THEN [episodes EXCEPT ![data.id] =
             [UpdateEpisode(@, data) EXCEPT !.tags = Append(@, "new")]]
    ELSE episodes @@ (data.id :> NewEpisode(self, data))

\* refresh, lines 204-208: update the episode filed under the id, or add one
Upsert(episodes, self, data) ==
    IF data.id \in DOMAIN episodes
    THEN [episodes EXCEPT ![data.id] = UpdateEpisode(@, data)]
    ELSE episodes @@ (data.id :> NewEpisode(self, data))

\* refresh, lines 194-210: the loop over the entries, from entry_number on.
\* Gives the episodes, the ids seen and whether an entry raised.
RECURSIVE RefreshLoop(_, _, _, _, _)
RefreshLoop(episodes, self, entries, entry_number, episodes_seen) ==
    IF entry_number >= Len(entries)
    THEN [episodes |-> episodes, episodes_seen |-> episodes_seen, error |-> None]
    ELSE LET raw == entries[entry_number + 1]
         IN  IF ~EntryParses(raw)
             THEN [episodes |-> episodes, episodes_seen |-> episodes_seen,
                   error |-> Some("IndexError")]
             ELSE LET parsed == ParseEpisodeFeedData(raw)
                      data == [parsed EXCEPT !.episode_number =
                                  EpisodeNumber(parsed, Len(entries), entry_number)]
                  IN  RefreshLoop(Upsert(episodes, self, data), self, entries,
                                  entry_number + 1, episodes_seen \cup {data.id})

\* Mutant: the clean-up loop deletes nothing
PruneNothing(episodes, episodes_seen) == episodes

\* refresh, lines 213-215: delete the episodes whose id was not seen
Prune(episodes, episodes_seen) ==
    LET gone == {episodes[k].id : k \in DOMAIN episodes} \ episodes_seen
    IN  [k \in DOMAIN episodes \ gone |-> episodes[k]]

\* Mutant: the clean-up loop also runs after an entry has raised
RefreshEpisodesPruning(episodes, self, entries) ==
    LET looped == RefreshLoop(episodes, self, entries, 0, {})
    IN  [episodes |-> Prune(looped.episodes, looped.episodes_seen),
         error |-> looped.error]

\* Podcast.refresh on the episodes of the podcast at address self
RefreshEpisodes(episodes, self, entries) ==
    LET looped == RefreshLoop(episodes, self, entries, 0, {})
    IN  IF looped.error # None
        THEN [episodes |-> looped.episodes, error |-> looped.error]
        ELSE [episodes |-> Prune(looped.episodes, looped.episodes_seen),
              error |-> None]

----------------------------------------------------------------------------
(* pod_store/store.py: StorePodcasts, and the model-layer calls on it *)

Titles == {"p1", "p2"}

FeedUrls == {"u1", "u2"}

\* tags the user applies with tag / untag
UserTags == {"foo"}

NoError == None

Keys == DOMAIN podcasts

\* addresses of the Podcast objects the store holds
Live == {podcasts[k].addr : k \in Keys}

\* the address a newly constructed Podcast object gets
FreshAddr == CHOOSE a \in 1..(Cardinality(Titles) + 1) :
                a \notin Live /\ \A b \in 1..(a - 1) : b \in Live

\* os.path.join(self._podcast_downloads_path, title)
DownloadsPath(title) == <<"Podcasts", title>>

\* Podcast.__init__, from StorePodcasts.add (episode_data = {}, tags = None)
NewPodcast(addr, title, feed, clock) ==
    [addr |-> addr,
     title |-> title,
     episode_downloads_path |-> DownloadsPath(title),
     feed |-> feed,
     tags |-> <<>>,
     created_at |-> clock,
     updated_at |-> clock,
     episodes |-> <<>>]

Call(op, title, other, id, feed, error) ==
    [op |-> op, title |-> title, other |-> other, id |-> id, feed |-> feed,
     error |-> error,
     \* the episode ids of the podcast before a refresh or a delete
     existed |-> IF op \in {"refresh", "delete"} /\ title \in Keys
                 THEN DOMAIN podcasts[title].episodes ELSE {},
     \* this call repeats the call before it: the same successful refresh
     repeat |-> /\ op = "refresh" /\ last.op = "refresh" /\ last.title = title
                /\ last.feed = feed /\ last.error = NoError /\ error = NoError]

\* Mutant: the podcast is filed under its title before it is refreshed
AddResultFiledFirst(title, feed, entries) ==
    IF title \in Keys THEN podcasts
    ELSE LET podcast == NewPodcast(FreshAddr, title, feed, now)
             refreshed == RefreshEpisodes(podcast.episodes, podcast.addr, entries)
         IN  podcasts @@ (title :> [podcast EXCEPT !.episodes = refreshed.episodes])

\* Mutant: add without the check for the title, the new podcast replacing the old
AddResultOverwrite(title, feed, entries) ==
    LET podcast == NewPodcast(FreshAddr, title, feed, now)
        refreshed == RefreshEpisodes(podcast.episodes, podcast.addr, entries)
    IN  IF refreshed.error # None THEN podcasts
        ELSE [k \in Keys \cup {title} |->
                 IF k = title THEN [podcast EXCEPT !.episodes = refreshed.episodes]
                 ELSE podcasts[k]]

\* what StorePodcasts.add leaves in _podcasts
AddResult(title, feed, entries) ==
    IF title \in Keys THEN podcasts
    ELSE LET podcast == NewPodcast(FreshAddr, title, feed, now)
             refreshed == RefreshEpisodes(podcast.episodes, podcast.addr, entries)
         IN  IF refreshed.error # None THEN podcasts
             ELSE podcasts @@ (title :> [podcast EXCEPT !.episodes = refreshed.episodes])

AddError(title, entries) ==
    IF title \in Keys THEN Some("PodcastExistsError")
    ELSE RefreshEpisodes(<<>>, FreshAddr, entries).error

\* StorePodcasts.add(title, feed=feed), the feed fetch returning `entries`
Add(title, feed, entries) ==
    /\ podcasts' = AddResult(title, feed, entries)
    /\ last' = Call("add", title, feed, None, entries, AddError(title, entries))
    /\ UNCHANGED <<now, query, disk, wr, plainFile, inv, reverse_episode_order>>

\* StorePodcasts.add(title, feed=feed) when feedparser.parse raises inside
\* refresh (podcasts.py 192): the error leaves add at line 113
AddFetchFails(title, feed) ==
    /\ last' = Call("add", title, feed, None, <<>>,
                    IF title \in Keys THEN Some("PodcastExistsError") ELSE Some("FetchError"))
    /\ UNCHANGED <<podcasts, now, query, disk, wr, plainFile, inv, reverse_episode_order>>

\* Podcast.refresh() on the podcast filed under `title`
Refresh(title, entries) ==
    /\ title \in Keys
    /\ LET podcast == podcasts[title]
           refreshed == RefreshEpisodes(podcast.episodes, podcast.addr, entries)
       IN  /\ podcasts' = [podcasts EXCEPT ![title].episodes = refreshed.episodes]
           /\ last' = Call("refresh", title, "", None, entries, refreshed.error)
    /\ UNCHANGED <<now, query, disk, wr, plainFile, inv, reverse_episode_order>>

\* Podcast.refresh() when feedparser.parse raises (line 192): the error
\* leaves refresh before any episode is looked at
RefreshFetchFails(title) ==
    /\ title \in Keys
    /\ last' = Call("refresh", title, "", None, <<>>, Some("FetchError"))
    /\ UNCHANGED <<podcasts, now, query, disk, wr, plainFile, inv, reverse_episode_order>>

\* Mutant: rename without the check for the new title
RenameResultOverwrite(old_title, new_title) ==
    IF old_title \notin Keys THEN podcasts
    ELSE LET podcast == [podcasts[old_title] EXCEPT
                            !.episode_downloads_path = DownloadsPath(new_title)]
         IN  [k \in (Keys \cup {new_title}) \ {old_title} |->
                 IF k = new_title THEN podcast ELSE podcasts[k]]

\* what StorePodcasts.rename leaves in _podcasts
RenameResult(old_title, new_title) ==
    IF new_title \in Keys \/ old_title \notin Keys THEN podcasts
    ELSE LET podcast == [podcasts[old_title] EXCEPT
                            !.episode_downloads_path = DownloadsPath(new_title)]
         IN  [k \in (Keys \cup {new_title}) \ {old_title} |->
                 IF k = new_title THEN podcast ELSE podcasts[k]]

RenameError(old_title, new_title) ==
    IF new_title \in Keys THEN Some("PodcastExistsError")
    ELSE IF old_title \notin Keys THEN Some("PodcastDoesNotExistError")
    ELSE NoError

\* StorePodcasts.rename(old_title, new_title)
Rename(old_title, new_title) ==
    /\ podcasts' = RenameResult(old_title, new_title)
    /\ last' = Call("rename", old_title, new_title, None, <<>>,
                    RenameError(old_title, new_title))
    /\ UNCHANGED <<now, query, disk, wr, plainFile, inv, reverse_episode_order>>

\* Mutant: delete takes the podcast's episodes away and keeps the podcast
DeleteResultEpisodes(title) ==
    [k \in Keys |-> IF k = title THEN [podcasts[k] EXCEPT !.episodes = <<>>]
                    ELSE podcasts[k]]

\* what StorePodcasts.delete leaves in _podcasts
DeleteResult(title) == [k \in Keys \ {title} |-> podcasts[k]]

\* StorePodcasts.delete(title)
Delete(title) ==
    /\ podcasts' = DeleteResult(title)
    /\ last' = Call("delete", title, "", None, <<>>,
                    IF title \in Keys THEN NoError ELSE Some("PodcastDoesNotExistError"))
    /\ UNCHANGED <<now, query, disk, wr, plainFile, inv, reverse_episode_order>>

\* Mutant: a tag the list already has is not added again
TaggedOnce(tags, tag_name) ==
    IF tag_name \in Range(tags) THEN tags ELSE Append(tags, tag_name)

\* Podcast.tag / Episode.tag: self.tags.append(tag_name)
Tagged(tags, tag_name) == Append(tags, tag_name)

\* Podcast.untag / Episode.untag
Untagged(tags, tag_name) == Without(tags, tag_name)

\* Podcast.tag(tag_name) on the podcast filed under `title`
TagPodcast(title, tag_name) ==
    /\ title \in Keys
    /\ Len(podcasts[title].tags) < MaxTags
    /\ podcasts' = [podcasts EXCEPT ![title].tags = Tagged(@, tag_name)]
    /\ last' = Call("tag_podcast", title, tag_name, None, <<>>, NoError)
    /\ UNCHANGED <<now, query, disk, wr, plainFile, inv, reverse_episode_order>>

\* Podcast.untag(tag_name)
UntagPodcast(title, tag_name) ==
    /\ title \in Keys
    /\ podcasts' = [podcasts EXCEPT ![title].tags = Untagged(@, tag_name)]
    /\ last' = Call("untag_podcast", title, tag_name, None, <<>>, NoError)
    /\ UNCHANGED <<now, query, disk, wr, plainFile, inv, reverse_episode_order>>

\* Episode.tag(tag_name) on the episode filed under `id`
TagEpisode(title, id, tag_name) ==
    /\ title \in Keys
    /\ id \in DOMAIN podcasts[title].episodes
    /\ Len(podcasts[title].episodes[id].tags) < MaxTags
    /\ podcasts' = [podcasts EXCEPT ![title].episodes[id].tags = Tagged(@, tag_name)]
    /\ last' = Call("tag_episode", title, tag_name, id, <<>>, NoError)
    /\ UNCHANGED <<now, query, disk, wr, plainFile, inv, reverse_episode_order>>

\* Episode.untag(tag_name)
UntagEpisode(title, id, tag_name) ==
    /\ title \in Keys
    /\ id \in DOMAIN podcasts[title].episodes
    /\ podcasts' = [podcasts EXCEPT ![title].episodes[id].tags = Untagged(@, tag_name)]
    /\ last' = Call("untag_episode", title, tag_name, id, <<>>, NoError)
    /\ UNCHANGED <<now, query, disk, wr, plainFile, inv, reverse_episode_order>>

\* EpisodeDownloadManager.__exit__ after a download that ran to the end
Downloaded(episode, clock) ==
    [episode EXCEPT !.downloaded_at = Some(clock), !.tags = Untagged(@, "new")]

\* `with episode.download()` running to the end
Download(title, id) ==
    /\ title \in Keys
    /\ id \in DOMAIN podcasts[title].episodes
    /\ podcasts' = [podcasts EXCEPT ![title].episodes[id] = Downloaded(@, now)]
    /\ last' = Call("download", title, "", id, <<>>, NoError)
    /\ UNCHANGED <<now, query, disk, wr, plainFile, inv, reverse_episode_order>>

\* episode.download() whose requests.get raises: EpisodeDownloadManager.__init__
\* does not return, the `with` block is never entered
DownloadRequestFails(title, id) ==
    /\ title \in Keys
    /\ id \in DOMAIN podcasts[title].episodes
    /\ last' = Call("download", title, "", id, <<>>, Some("RequestError"))
    /\ UNCHANGED <<podcasts, now, query, disk, wr, plainFile, inv, reverse_episode_order>>

\* `with episode.download()` whose body raises while it takes the chunks (open,
\* iter_content or write fails): __exit__ runs as it does after any body, and
\* the exception goes on to the caller
DownloadStreamFails(title, id) ==
    /\ title \in Keys
    /\ id \in DOMAIN podcasts[title].episodes
    /\ podcasts' = [podcasts EXCEPT ![title].episodes[id] = Downloaded(@, now)]
    /\ last' = Call("download", title, "", id, <<>>, Some("StreamError"))
    /\ UNCHANGED <<now, query, disk, wr, plainFile, inv, reverse_episode_order>>

----------------------------------------------------------------------------
(* Values of the variables a specification does not use *)

NoCall ==
    [op |-> "init", title |-> "", other |-> "", id |-> None, feed |-> <<>>,
     error |-> NoError, existed |-> {}, repeat |-> FALSE]

NoQuery == [kind |-> "none"]

NoDisk == [store |-> None, tmp |-> None]

NoWrite ==
    [pc |-> "idle", data |-> "", existing_data |-> <<>>, prior |-> None,
     error |-> NoError, tool_failed |-> FALSE]

NoInvocations == <<>>

----------------------------------------------------------------------------
(* One podcast and its feed: refresh against every listing, with the user   *)
(* tagging and downloading episodes in between                              *)

\* the store ids the feed entries normalize to
EpisodeIds == {ParseStoreEpisodeId(e.id) : e \in Entries}

RefreshInit ==
    /\ podcasts = ("p1" :> NewPodcast(1, "p1", "u1", 1))
    /\ now = 1
    /\ last = NoCall
    /\ query = NoQuery
    /\ disk = NoDisk
    /\ wr = NoWrite
    /\ plainFile = None
    /\ inv = NoInvocations
    /\ reverse_episode_order = {}

RefreshNext ==
    \/ \E entries \in Feeds : Refresh("p1", entries)
    \/ RefreshFetchFails("p1")
    \/ \E id \in EpisodeIds, t \in UserTags : TagEpisode("p1", id, t)
    \/ \E id \in EpisodeIds : Download("p1", id)

RefreshSpec == RefreshInit /\ [][RefreshNext]_vars

\* the last '/'-separated segment of a feed-native id, read from the right
RECURSIVE LastSegment(_)
LastSegment(s) ==
    IF s = <<>> \/ s[Len(s)] = "/" THEN <<>>
    ELSE LastSegment(SubSeq(s, 1, Len(s) - 1)) \o <<s[Len(s)]>>

NormalizedIds(entries) == {LastSegment(entries[i].id) : i \in 1..Len(entries)}

RefreshCompleted == last.op = "refresh" /\ last.error = NoError

\* C1: after a refresh that completes without error, the ids of the podcast's
\* episode collection (the keys, and the id of each episode) are exactly the
\* last segments of the feed-native ids of the listing.
C1_ReconciliationComplete ==
    RefreshCompleted =>
        LET episodes == podcasts[last.title].episodes
        IN  /\ DOMAIN episodes = NormalizedIds(last.feed)
            /\ {episodes[k].id : k \in DOMAIN episodes} = NormalizedIds(last.feed)

\* a completed refresh of a listing with two entries of the same store id, which
\* dropped an episode held before; and a completed refresh of the empty listing
C1_Witness ==
    /\ RefreshCompleted
    /\ \/ /\ Len(last.feed) = 2
          /\ Cardinality(NormalizedIds(last.feed)) = 1
          /\ last.existed \ NormalizedIds(last.feed) # {}
       \/ /\ last.feed = <<>>
          /\ last.existed # {}

\* C2: across a refresh that completes, an episode whose id is in the listing
\* and was held before keeps its tags and downloaded_at; one that was not held
\* is created with tags ["new"] and downloaded_at None.
C2_UpsertKeepsUserState ==
    [][RefreshCompleted' =>
        \A id \in NormalizedIds(last'.feed) :
            LET before == podcasts[last'.title].episodes
                after == podcasts'[last'.title].episodes
            IN  /\ id \in DOMAIN after
                /\ IF id \in DOMAIN before
                   THEN /\ after[id].tags = before[id].tags
                        /\ after[id].downloaded_at = before[id].downloaded_at
                   ELSE /\ after[id].tags = <<"new">>
                        /\ after[id].downloaded_at = None]_vars

\* a completed refresh that kept a downloaded, user-tagged episode, changed its
\* title, and created another episode
C2_Witness ==
    /\ RefreshCompleted
    /\ LET episodes == podcasts[last.title].episodes
       IN  /\ \E id \in last.existed \cap DOMAIN episodes :
                 /\ episodes[id].downloaded_at # None
                 /\ episodes[id].tags = <<"foo">>
                 /\ episodes[id].title = "t2"
           /\ DOMAIN episodes \ last.existed # {}

\* C10: a refresh that repeats the refresh before it (same podcast, same
\* listing, both completed) leaves the episode collection as the first left it.
C10_RefreshIdempotent ==
    [][(RefreshCompleted' /\ last'.repeat) =>
        podcasts'[last'.title].episodes = podcasts[last'.title].episodes]_vars

\* the second of two equal refreshes of a two-entry listing, over episodes
\* one of which the user had downloaded
C10_Witness ==
    /\ RefreshCompleted
    /\ last.repeat
    /\ Len(last.feed) = 2
    /\ \E id \in DOMAIN podcasts[last.title].episodes :
          podcasts[last.title].episodes[id].downloaded_at # None

----------------------------------------------------------------------------
(* The store: podcasts added, refreshed, renamed, deleted, tagged, untagged *)

\* the listings the feeds return in this specification
StoreFeeds == {<<>>, <<EntryA>>, <<BadEntry>>}

StoreInit ==
    /\ podcasts = <<>>
    /\ now = 1
    /\ last = NoCall
    /\ query = NoQuery
    /\ disk = NoDisk
    /\ wr = NoWrite
    /\ plainFile = None
    /\ inv = NoInvocations
    /\ reverse_episode_order = {}

StoreNext ==
    \/ \E title \in Titles, feed \in FeedUrls, entries \in StoreFeeds :
           Add(title, feed, entries)
    \/ \E title \in Titles, feed \in FeedUrls : AddFetchFails(title, feed)
    \/ \E title \in Titles, entries \in StoreFeeds : Refresh(title, entries)
    \/ \E old_title \in Titles, new_title \in Titles : Rename(old_title, new_title)
    \/ \E title \in Titles : Delete(title)
    \/ \E title \in Titles, t \in UserTags : TagPodcast(title, t)
    \/ \E title \in Titles, t \in UserTags : UntagPodcast(title, t)
    \/ \E title \in Titles, id \in EpisodeIds, t \in UserTags : TagEpisode(title, id, t)
    \/ \E title \in Titles, id \in EpisodeIds, t \in UserTags : UntagEpisode(title, id, t)

StoreSpec == StoreInit /\ [][StoreNext]_vars

\* C5: an add whose title is already a key of the store raises
\* PodcastExistsError, whatever the feed would return, and leaves every
\* podcast of the store (keys, feed, tags, timestamps, episodes) as it was.
C5_AddExistingTitle ==
    [][(last'.op = "add" /\ last'.title \in DOMAIN podcasts) =>
        /\ last'.error = Some("PodcastExistsError")
        /\ podcasts' = podcasts]_vars

\* a refused add of a title whose podcast has an episode and a tag, with
\* another feed URL and a listing that the reconciliation could not process
C5_Witness ==
    /\ last.op = "add"
    /\ last.error = Some("PodcastExistsError")
    /\ last.feed = <<BadEntry>>
    /\ podcasts[last.title].feed # last.other
    /\ podcasts[last.title].tags # <<>>
    /\ podcasts[last.title].episodes # <<>>

\* no two podcasts of the store have the same title
TitlesUnique ==
    \A k1 \in Keys, k2 \in Keys : k1 # k2 => podcasts[k1].title # podcasts[k2].title

\* each episode is filed under its own id (so no two of a podcast share an id)
EpisodesFiledUnderId ==
    \A k \in Keys : \A id \in DOMAIN podcasts[k].episodes :
        podcasts[k].episodes[id].id = id

\* each episode refers back to the podcast holding it, which the store holds
BackReferences ==
    \A k \in Keys : \A id \in DOMAIN podcasts[k].episodes :
        podcasts[k].episodes[id].podcast = podcasts[k].addr

\* C6: in every state reached by add, refresh, rename, delete, tag and untag,
\* podcast titles are unique, episodes are filed under their own ids and
\* every episode refers back to the podcast that holds it.
C6_StoreInvariants == TitlesUnique /\ EpisodesFiledUnderId /\ BackReferences

----------------------------------------------------------------------------
(* pod_store/store_file_handlers.py: EncryptedStoreFileHandler.write_data,  *)
(* one file system operation at a time.  A file is None when it does not    *)
(* exist and Some(bytes) when it does; bytes are a sequence.                *)

\* the store data handed to write_data
StoreData == {"d1", "d2"}

\* json.dump(data, f): the plaintext written to the temporary file
Json(data) == <<"json", data>>

\* the ciphertext gpg writes for that plaintext
Gpg(plaintext) == <<"gpg", plaintext[2]>>

\* what a gpg run that fails can leave at --output: nothing, or a cut-off file
FailedOutputs(plaintext) == {None, Some(SubSeq(Gpg(plaintext), 1, 1))}

\* the bytes of a file, b"" for one that does not exist
Bytes(file) == IF file = None THEN <<>> ELSE file[1]

\* Mutant: nothing of the existing file is kept
ReadNothing(file) == <<>>

\* lines 76-81: existing_data, b"" on FileNotFoundError
ReadExisting(file) == Bytes(file)

\* Mutant: the restore creates the file and writes nothing
RestoredEmpty(existing_data) == Some(<<>>)

\* lines 97-98: the file after f.write(existing_data)
Restored(existing_data) == Some(existing_data)

Running ==
    wr.pc \notin {"idle", "done", "failed", "raised", "killed",
                  "read_returned", "read_raised"}

\* write_data(data) is called
WriteStart(data) ==
    /\ ~Running
    /\ wr' = [pc |-> "read", data |-> data, existing_data |-> <<>>,
              prior |-> disk.store, error |-> NoError, tool_failed |-> FALSE]
    /\ UNCHANGED <<disk, podcasts, now, last, query, plainFile, inv, reverse_episode_order>>

\* lines 77-78 and 80-81: open and read the store file
WriteRead ==
    /\ wr.pc = "read"
    /\ wr' = [wr EXCEPT !.existing_data = ReadExisting(disk.store),
                        !.pc = IF disk.store = None THEN "tmp" ELSE "remove"]
    /\ UNCHANGED <<disk, podcasts, now, last, query, plainFile, inv, reverse_episode_order>>

\* line 79: os.remove(self.store_file_path)
WriteRemove ==
    /\ wr.pc = "remove"
    /\ disk' = [disk EXCEPT !.store = None]
    /\ wr' = [wr EXCEPT !.pc = "tmp"]
    /\ UNCHANGED <<podcasts, now, last, query, plainFile, inv, reverse_episode_order>>

\* lines 83-85: the plaintext is written to .tmp
WriteTmp ==
    /\ wr.pc = "tmp"
    /\ disk' = [disk EXCEPT !.tmp = Some(Json(wr.data))]
    /\ wr' = [wr EXCEPT !.pc = "gpg"]
    /\ UNCHANGED <<podcasts, now, last, query, plainFile, inv, reverse_episode_order>>

\* lines 84-85 raising (the file is created, the dump fails): outside the try
WriteTmpFails ==
    /\ wr.pc = "tmp"
    /\ disk' = [disk EXCEPT !.tmp = Some(<<>>)]
    /\ wr' = [wr EXCEPT !.pc = "raised", !.error = Some("OSError")]
    /\ UNCHANGED <<podcasts, now, last, query, plainFile, inv, reverse_episode_order>>

\* lines 88-94: gpg encrypts .tmp to the store file path
WriteEncrypt ==
    /\ wr.pc = "gpg"
    /\ disk' = [disk EXCEPT !.store = Some(Gpg(Bytes(disk.tmp)))]
    /\ wr' = [wr EXCEPT !.pc = "cleanup"]
    /\ UNCHANGED <<podcasts, now, last, query, plainFile, inv, reverse_episode_order>>

\* lines 94-95: the gpg run fails and the except clause is entered
WriteEncryptFails ==
    /\ wr.pc = "gpg"
    /\ \E left \in FailedOutputs(Bytes(disk.tmp)) : disk' = [disk EXCEPT !.store = left]
    /\ wr' = [wr EXCEPT !.pc = "rollback_rm", !.tool_failed = TRUE]
    /\ UNCHANGED <<podcasts, now, last, query, plainFile, inv, reverse_episode_order>>

\* line 96: os.remove(tmp_file)
WriteRollbackRemoveTmp ==
    /\ wr.pc = "rollback_rm"
    /\ disk' = [disk EXCEPT !.tmp = None]
    /\ wr' = [wr EXCEPT !.pc = "rollback_open"]
    /\ UNCHANGED <<podcasts, now, last, query, plainFile, inv, reverse_episode_order>>

\* line 97: open(self.store_file_path, "wb") creates or truncates the file
WriteRollbackOpen ==
    /\ wr.pc = "rollback_open"
    /\ disk' = [disk EXCEPT !.store = Some(<<>>)]
    /\ wr' = [wr EXCEPT !.pc = "rollback_write"]
    /\ UNCHANGED <<podcasts, now, last, query, plainFile, inv, reverse_episode_order>>

\* lines 98-99: f.write(existing_data), then raise GPGCommandError
WriteRollbackWrite ==
    /\ wr.pc = "rollback_write"
    /\ disk' = [disk EXCEPT !.store = Restored(wr.existing_data)]
    /\ wr' = [wr EXCEPT !.pc = "failed", !.error = Some("GPGCommandError")]
    /\ UNCHANGED <<podcasts, now, last, query, plainFile, inv, reverse_episode_order>>

\* line 101: os.remove(tmp_file), and the call returns
WriteCleanup ==
    /\ wr.pc = "cleanup"
    /\ disk' = [disk EXCEPT !.tmp = None]
    /\ wr' = [wr EXCEPT !.pc = "done"]
    /\ UNCHANGED <<podcasts, now, last, query, plainFile, inv, reverse_episode_order>>

\* the process is terminated while write_data runs: no handler runs
WriteKilled ==
    /\ Running
    /\ wr' = [wr EXCEPT !.pc = "killed"]
    /\ UNCHANGED <<disk, podcasts, now, last, query, plainFile, inv, reverse_episode_order>>

\* lines 67-72 and 103-107: read_data() when gpg -d exits with 0
ReadDataReturns ==
    /\ ~Running
    /\ \E data \in StoreData :
          /\ disk.store = Some(Gpg(Json(data)))
          /\ wr' = [pc |-> "read_returned", data |-> data, existing_data |-> <<>>,
                    prior |-> disk.store, error |-> NoError, tool_failed |-> FALSE]
    /\ UNCHANGED <<disk, podcasts, now, last, query, plainFile, inv, reverse_episode_order>>

\* lines 67-72 and 103-107: read_data() when gpg -d exits with another status;
\* subprocess.run(check=True) raises CalledProcessError and nothing catches it
ReadDataRaises ==
    /\ ~Running
    /\ wr' = [pc |-> "read_raised", data |-> "", existing_data |-> <<>>,
              prior |-> disk.store, error |-> Some("CalledProcessError"),
              tool_failed |-> TRUE]
    /\ UNCHANGED <<disk, podcasts, now, last, query, plainFile, inv, reverse_episode_order>>

\* the store file before the first call: none, a ciphertext, or other bytes
FileInit ==
    /\ disk \in {[store |-> f, tmp |-> None] :
                    f \in {None, Some(Gpg(Json("d1"))), Some(<<"other">>)}}
    /\ wr = NoWrite
    /\ podcasts = <<>>
    /\ now = 1
    /\ last = NoCall
    /\ query = NoQuery
    /\ plainFile = None
    /\ inv = NoInvocations
    /\ reverse_episode_order = {}

FileNext ==
    \/ \E data \in StoreData : WriteStart(data)
    \/ WriteRead
    \/ WriteRemove
    \/ WriteTmp
    \/ WriteTmpFails
    \/ WriteEncrypt
    \/ WriteEncryptFails
    \/ WriteRollbackRemoveTmp
    \/ WriteRollbackOpen
    \/ WriteRollbackWrite
    \/ WriteCleanup
    \/ WriteKilled
    \/ ReadDataReturns
    \/ ReadDataRaises

FileSpec == FileInit /\ [][FileNext]_vars

\* the call has ended by returning or raising (it was not terminated)
WriteEnded == wr.pc \in {"done", "failed", "raised"}

\* C3: a write_data call in which the gpg run failed ends by raising
\* GPGCommandError, and the store file then has the bytes it had before the
\* call (no bytes for a file that did not exist).
C3_AtomicWriteOnToolFailure ==
    (WriteEnded /\ wr.tool_failed) =>
        /\ wr.pc = "failed"
        /\ wr.error = Some("GPGCommandError")
        /\ Bytes(disk.store) = Bytes(wr.prior)
        /\ disk.tmp = None

\* a failed call over an existing ciphertext of other data
C3_Witness ==
    /\ wr.pc = "failed"
    /\ wr.tool_failed
    /\ wr.prior = Some(Gpg(Json("d1")))
    /\ wr.data = "d2"

\* C4 as claimed: at every step of write_data, and after a termination at any
\* step, the store file holds the complete prior content or the complete new
\* content.
C4_NeverCorrupt ==
    wr.pc # "idle" => disk.store \in {wr.prior, Some(Gpg(Json(wr.data)))}

\* C4 as amended: the store file is untouched until the old file is removed;
\* it holds the complete new content when write_data has returned and the
\* complete prior bytes when it has raised GPGCommandError.
C4_CompleteWhenEnded ==
    /\ wr.pc \in {"read", "remove"} => disk.store = wr.prior
    /\ wr.pc = "done" => disk.store = Some(Gpg(Json(wr.data)))
    /\ wr.pc = "failed" => disk.store = Some(Bytes(wr.prior))

\* a call that returned after replacing an existing store file, and a state
\* inside the call in which the store file is missing
C4_Witness ==
    \/ /\ wr.pc = "done"
       /\ wr.prior = Some(<<"other">>)
       /\ disk.store = Some(Gpg(Json("d2")))
    \/ /\ wr.pc = "killed"
       /\ wr.prior # None
       /\ disk.store = None

----------------------------------------------------------------------------
(* pod_store/commands/decorators.py: save_store_changes, for invocations    *)
(* that run as separate processes on one store file.  Each invocation has   *)
(* its own Store object, loaded from the file when it is constructed; the   *)
(* store is reduced to the titles it holds.                                 *)

\* number of invocations that can run side by side
MaxProcs == 2

Procs == 1..MaxProcs

IdleInvocation == [pc |-> "idle", store |-> {}, error |-> NoError]

\* store.py 33-47: Store.__init__ reads the store file
InvokeLoad(p) ==
    /\ inv[p].pc = "idle"
    /\ inv' = [inv EXCEPT ![p] = [pc |-> "loaded", store |-> plainFile, error |-> NoError]]
    /\ UNCHANGED <<plainFile, podcasts, now, last, query, disk, wr, reverse_episode_order>>

\* decorators.py 155: resp = f(ctx, ...), here adding a podcast; an exception
\* leaves the wrapper before the save
InvokeAdd(p, title) ==
    /\ inv[p].pc = "loaded"
    /\ inv' = [inv EXCEPT ![p] =
                 IF title \in inv[p].store
                 THEN [pc |-> "idle", store |-> {}, error |-> Some("PodcastExistsError")]
                 ELSE [inv[p] EXCEPT !.pc = "ran", !.store = @ \cup {title}]]
    /\ UNCHANGED <<plainFile, podcasts, now, last, query, disk, wr, reverse_episode_order>>

\* decorators.py 155: resp = f(ctx, ...), here removing a podcast
InvokeRemove(p, title) ==
    /\ inv[p].pc = "loaded"
    /\ inv' = [inv EXCEPT ![p] =
                 IF title \notin inv[p].store
                 THEN [pc |-> "idle", store |-> {}, error |-> Some("PodcastDoesNotExistError")]
                 ELSE [inv[p] EXCEPT !.pc = "ran", !.store = @ \ {title}]]
    /\ UNCHANGED <<plainFile, podcasts, now, last, query, disk, wr, reverse_episode_order>>

\* decorators.py 156-157: ctx.obj.save(), and the command returns
InvokeSave(p) ==
    /\ inv[p].pc = "ran"
    /\ plainFile' = inv[p].store
    /\ inv' = [inv EXCEPT ![p] = IdleInvocation]
    /\ UNCHANGED <<podcasts, now, last, query, disk, wr, reverse_episode_order>>

InvokeInit ==
    /\ inv = [p \in Procs |-> IdleInvocation]
    /\ reverse_episode_order = {}
    /\ plainFile = {}
    /\ podcasts = <<>>
    /\ now = 1
    /\ last = NoCall
    /\ query = NoQuery
    /\ disk = NoDisk
    /\ wr = NoWrite

InvokeNext ==
    \/ \E p \in Procs : InvokeLoad(p)
    \/ \E p \in Procs, title \in Titles : InvokeAdd(p, title)
    \/ \E p \in Procs, title \in Titles : InvokeRemove(p, title)
    \/ \E p \in Procs : InvokeSave(p)

InvokeSpec == InvokeInit /\ [][InvokeNext]_vars

\* the invocations that are inside a mutating command
Mutating == {p \in Procs : inv[p].pc # "idle"}

\* C7: a mutating invocation that starts while another one is inside its
\* mutating command fails with StoreLocked and changes nothing, so that no two
\* invocations are inside a mutating command together.
C7_SingleWriter == Cardinality(Mutating) <= 1

----------------------------------------------------------------------------
(* pod_store/commands/filtering.py.  A filter value is a Python value with  *)
(* its type: <<"bool", b>> or <<"str", s>>.  A dict of filters is the       *)
(* sequence of its <<key, value>> items, in the order the dict holds them.  *)
(* The filters resolved here are built with new_episodes unset, so lines    *)
(* 66-67 and 117-118 add no filter.                                         *)

PyTrue == <<"bool", TRUE>>

PyFalse == <<"bool", FALSE>>

PyStr(s) == <<"str", s>>

DictKeys(d) == {d[i][1] : i \in DOMAIN d}

DictValue(d, key) == d[CHOOSE i \in DOMAIN d : d[i][1] = key][2]

\* {**a, **b}
DictMerge(a, b) ==
    [i \in DOMAIN a |->
        IF a[i][1] \in DictKeys(b) THEN <<a[i][1], DictValue(b, a[i][1])>> ELSE a[i]]
    \o SelectSeq(b, LAMBDA item : item[1] \notin DictKeys(a))

\* {t: value for t in tag_names}
TagDict(tag_names, value) == [i \in DOMAIN tag_names |-> <<tag_names[i], value>>]

\* sorted(objects, key=created_at); with equal times CHOOSE stands for the
\* order of the dict, which the store contents drawn below never need
RECURSIVE SortedByCreatedAt(_)
SortedByCreatedAt(objects) ==
    IF objects = {} THEN <<>>
    ELSE LET first == CHOOSE x \in objects : \A y \in objects : x.created_at <= y.created_at
         IN  <<first>> \o SortedByCreatedAt(objects \ {first})

Reversed(s) == [i \in DOMAIN s |-> s[Len(s) + 1 - i]]

\* store.py 129-133: StorePodcasts.list()
ListPodcasts(store) == SortedByCreatedAt({store[k] : k \in DOMAIN store})

\* podcasts.py 79-102: PodcastEpisodes.list(), most recent first
ListEpisodes(podcast) ==
    Reversed(SortedByCreatedAt({podcast.episodes[k] : k \in DOMAIN podcast.episodes}))

\* whether getattr(obj, key) finds an attribute: the fields of the object
\* (addr is the object's address, not an attribute)
HasAttr(obj, key) == key \in DOMAIN obj \ {"addr"}

\* getattr(obj, key) as a typed value
GetAttr(obj, key) ==
    IF key \in {"title", "feed", "episode_number", "id", "url"}
    THEN PyStr(obj[key])
    ELSE <<key, obj[key]>>

\* Mutant: a value that is neither True nor False matches nothing
CheckFilterCriteriaSilent(obj, key, value) ==
    IF HasAttr(obj, key)
    THEN [passes |-> GetAttr(obj, key) = value, error |-> NoError]
    ELSE IF value = PyTrue
    THEN [passes |-> key \in Range(obj.tags), error |-> NoError]
    ELSE IF value = PyFalse
    THEN [passes |-> key \notin Range(obj.tags), error |-> NoError]
    ELSE [passes |-> FALSE, error |-> NoError]

\* lines 80-101: gives the verdict, or the error raised
CheckFilterCriteria(obj, key, value) ==
    IF HasAttr(obj, key)
    THEN [passes |-> GetAttr(obj, key) = value, error |-> NoError]
    ELSE IF value = PyTrue
    THEN [passes |-> key \in Range(obj.tags), error |-> NoError]
    ELSE IF value = PyFalse
    THEN [passes |-> key \notin Range(obj.tags), error |-> NoError]
    ELSE [passes |-> FALSE, error |-> Some("AttributeError")]

\* lines 73-78: the first criterion that fails or raises decides
RECURSIVE PassesFilters(_, _)
PassesFilters(obj, filters) ==
    IF filters = <<>> THEN [passes |-> TRUE, error |-> NoError]
    ELSE LET checked == CheckFilterCriteria(obj, Head(filters)[1], Head(filters)[2])
         IN  IF checked.error # NoError \/ ~checked.passes THEN checked
             ELSE PassesFilters(obj, Tail(filters))

\* lines 29-41: Filter.__init__
NewFilter(cls, podcast_title, podcast_filters, filters) ==
    [cls |-> cls, podcast_title |-> podcast_title,
     extra_podcast_filters |-> podcast_filters, filters |-> filters]

\* lines 59-71: Filter._podcast_filters
BasePodcastFilters(f) ==
    DictMerge(IF f.podcast_title # None
              THEN <<<<"title", PyStr(f.podcast_title[1])>>>> ELSE <<>>,
              f.extra_podcast_filters)

\* lines 59-71 and 157-163: the _podcast_filters of the filter's class
PodcastFilters(f) ==
    IF f.cls = "PodcastFilter" THEN DictMerge(f.filters, BasePodcastFilters(f))
    ELSE BasePodcastFilters(f)

\* a list comprehension over objs with _passes_filters as its condition
RECURSIVE Comprehension(_, _)
Comprehension(objs, filters) ==
    IF objs = <<>> THEN [items |-> <<>>, error |-> NoError]
    ELSE LET passed == PassesFilters(Head(objs), filters)
             rest == Comprehension(Tail(objs), filters)
         IN  IF passed.error # NoError THEN [items |-> <<>>, error |-> passed.error]
             ELSE IF rest.error # NoError THEN rest
             ELSE [items |-> (IF passed.passes THEN <<Head(objs)>> ELSE <<>>) \o rest.items,
                   error |-> NoError]

\* lines 47-57: Filter.podcasts
FilterPodcasts(store, f) ==
    LET found == Comprehension(ListPodcasts(store), PodcastFilters(f))
    IN  IF found.error # NoError THEN found
        ELSE IF found.items = <<>>
        THEN [items |-> <<>>, error |-> Some("NoPodcastsFoundError")]
        ELSE found

\* lines 125-127 and 132-138: the loop of EpisodeFilter._episodes over the podcasts
RECURSIVE ExtendEpisodes(_, _)
ExtendEpisodes(pods, filters) ==
    IF pods = <<>> THEN [items |-> <<>>, error |-> NoError]
    ELSE LET found == Comprehension(ListEpisodes(Head(pods)), filters)
             rest == ExtendEpisodes(Tail(pods), filters)
         IN  IF found.error # NoError THEN found
             ELSE IF rest.error # NoError THEN rest
             ELSE [items |-> found.items \o rest.items, error |-> NoError]

\* lines 122-130: EpisodeFilter._episodes
FilterEpisodes(store, f) ==
    LET pods == FilterPodcasts(store, f)
    IN  IF pods.error # NoError THEN pods
        ELSE LET found == ExtendEpisodes(pods.items, f.filters)
             IN  IF found.error # NoError THEN found
                 ELSE IF found.items = <<>>
                 THEN [items |-> <<>>, error |-> Some("NoEpisodesFoundError")]
                 ELSE found

\* the items property of the filter
Items(store, f) ==
    IF f.cls = "PodcastFilter" THEN FilterPodcasts(store, f) ELSE FilterEpisodes(store, f)

\* lines 152-155: PodcastFilter(store=store, **filters)
NewPodcastFilter(podcast_title, filters) ==
    NewFilter("PodcastFilter", podcast_title, <<>>, filters)

\* lines 173-209; filter_for_episodes is None, <<TRUE>> or <<FALSE>>
GetFilterFromCommandArguments(filter_for_episodes, podcast_title, tagged, untagged, podcasts_tagged, filters) ==
    LET for_episodes == IF filter_for_episodes = None THEN podcast_title # None
                        ELSE filter_for_episodes[1]
        all_filters == DictMerge(DictMerge(TagDict(tagged, PyTrue),
                                           TagDict(untagged, PyFalse)), filters)
    IN  NewFilter(IF for_episodes THEN "EpisodeFilter" ELSE "PodcastFilter",
                  podcast_title, TagDict(podcasts_tagged, PyTrue), all_filters)

\* the tags asked for: one that podcasts carry, one that is also the name of
\* a Podcast attribute, and one that no podcast carries
FilterTags == {"foo", "feed", "bar"}

\* the tag lists of the stored podcasts, as Podcast.tag leaves them
PodcastTagLists == {<<>>, <<"foo">>, <<"feed">>}

\* the order in which the podcasts were added
AddedAt == CHOOSE f \in [Titles -> 1..Cardinality(Titles)] :
               \A t1, t2 \in Titles : f[t1] = f[t2] => t1 = t2

\* a podcast as add, refresh and tag leave it in the store
StoredPodcast(title, tags, entries) ==
    LET podcast == NewPodcast(AddedAt[title], title, "u1", AddedAt[title])
    IN  [podcast EXCEPT !.tags = tags,
                        !.episodes = RefreshEpisodes(<<>>, podcast.addr, entries).episodes]

StoredPodcasts(title) ==
    {StoredPodcast(title, tags, entries) :
        tags \in PodcastTagLists, entries \in {<<>>, <<EntryA>>}}

FilterStores ==
    UNION {{store \in [K -> UNION {StoredPodcasts(t) : t \in K}] :
                \A t \in K : store[t] \in StoredPodcasts(t)} : K \in SUBSET Titles}

\* the episode numbers asked for
EpisodeNumbers == {PadEpisodeNumber(Str(1)), PadEpisodeNumber(Str(2))}

\* PodcastFilter(store, T=True), PodcastFilter(store, T=False) and
\* PodcastFilter(store), each resolved through items
ResolveTagFilters(tag) ==
    /\ query' = [kind |-> "tags", tag |-> tag,
                 present |-> Items(podcasts, NewPodcastFilter(None, <<<<tag, PyTrue>>>>)),
                 absent |-> Items(podcasts, NewPodcastFilter(None, <<<<tag, PyFalse>>>>)),
                 all |-> Items(podcasts, NewPodcastFilter(None, <<>>))]
    /\ UNCHANGED <<podcasts, now, last, disk, wr, plainFile, inv, reverse_episode_order>>

\* get_filter_from_command_arguments(store, ...) and the items of the filter
ResolveCommandFilter(filter_for_episodes, podcast_title, tagged, podcasts_tagged, episode_number) ==
    LET filters == IF episode_number = None THEN <<>>
                   ELSE <<<<"episode_number", PyStr(episode_number[1])>>>>
        f == GetFilterFromCommandArguments(filter_for_episodes, podcast_title, tagged,
                                           <<>>, podcasts_tagged, filters)
    IN  /\ query' = [kind |-> "command", filter_for_episodes |-> filter_for_episodes,
                     podcast_title |-> podcast_title, episode_number |-> episode_number,
                     filter |-> f, result |-> Items(podcasts, f)]
        /\ UNCHANGED <<podcasts, now, last, disk, wr, plainFile, inv, reverse_episode_order>>

\* the values a criterion is given: True, False and a string
CriterionValues == {PyTrue, PyFalse, PyStr("x")}

\* cls(store=store, **{key: value}).items
ResolveCriterion(cls, key, value) ==
    /\ query' = [kind |-> "criterion", cls |-> cls, key |-> key, value |-> value,
                 result |-> Items(podcasts, NewFilter(cls, None, <<>>, <<<<key, value>>>>))]
    /\ UNCHANGED <<podcasts, now, last, disk, wr, plainFile, inv, reverse_episode_order>>

FilterInit ==
    /\ podcasts \in FilterStores
    /\ query = NoQuery
    /\ now = 1
    /\ last = NoCall
    /\ disk = NoDisk
    /\ wr = NoWrite
    /\ plainFile = None
    /\ inv = NoInvocations
    /\ reverse_episode_order = {}

FilterNext ==
    \/ \E tag \in FilterTags : ResolveTagFilters(tag)
    \/ \E cls \in {"PodcastFilter", "EpisodeFilter"},
          key \in FilterTags \cup {"new"}, value \in CriterionValues :
            ResolveCriterion(cls, key, value)
    \/ \E filter_for_episodes \in {None, Some(TRUE), Some(FALSE)},
          podcast_title \in {None} \cup {Some(t) : t \in Titles},
          tagged \in {<<>>, <<"new">>},
          podcasts_tagged \in {<<>>, <<"foo">>},
          episode_number \in {None} \cup {Some(n) : n \in EpisodeNumbers} :
            ResolveCommandFilter(filter_for_episodes, podcast_title, tagged,
                                 podcasts_tagged, episode_number)

FilterSpec == FilterInit /\ [][FilterNext]_vars

\* C8: for any tag T, the podcasts of the filter asking for T and those of the
\* filter asking for its absence have no podcast in common and together are
\* the podcasts of the filter that asks for nothing (a filter that raises
\* counting as resolving no podcasts).
C8_FilterPartition ==
    query.kind = "tags" =>
        /\ Range(query.present.items) \cap Range(query.absent.items) = {}
        /\ Range(query.present.items) \cup Range(query.absent.items)
              = Range(query.all.items)

\* C9: a filter built from an episode number and no podcast title fails with
\* AmbiguousEpisodeError and gives no episodes.
C9_AmbiguousEpisode ==
    (/\ query.kind = "command"
     /\ query.episode_number # None
     /\ query.podcast_title = None) =>
        /\ query.result.error = Some("AmbiguousEpisodeError")
        /\ query.result.items = <<>>

----------------------------------------------------------------------------
(* pod_store/podcasts.py: one podcast over time, with the calls a caller    *)
(* can make on it next to refresh.                                          *)

\* last reading of the clock
MaxTime == 3

\* time passes between two calls
Tick ==
    /\ now < MaxTime
    /\ now' = now + 1
    /\ last' = Call("tick", "", "", None, <<>>, NoError)
    /\ UNCHANGED <<podcasts, query, disk, wr, plainFile, inv, reverse_episode_order>>

\* tests/test_podcasts.py 144: podcast.reverse_episode_order = True
SetReverseEpisodeOrder(title) ==
    /\ title \in Keys
    /\ reverse_episode_order' = reverse_episode_order \cup {podcasts[title].addr}
    /\ last' = Call("set_reverse_episode_order", title, "", None, <<>>, NoError)
    /\ UNCHANGED <<podcasts, now, query, disk, wr, plainFile, inv>>

\* the keyword arguments refresh would pass to add for a feed entry
EpisodeData ==
    {[ParseEpisodeFeedData(raw) EXCEPT !.episode_number = PadEpisodeNumber(Str(1))] :
        raw \in {e \in Entries : EntryParses(e)}}

\* podcasts.py 38-55: PodcastEpisodes.add(**data), self._episodes[id] = episode
AddedEpisode(episodes, self, data) ==
    [k \in DOMAIN episodes \cup {data.id} |->
        IF k = data.id THEN NewEpisode(self, data) ELSE episodes[k]]

\* podcast.episodes.add(**data) on the podcast filed under `title`
AddEpisode(title, data) ==
    /\ title \in Keys
    /\ podcasts' = [podcasts EXCEPT ![title].episodes =
                       AddedEpisode(@, podcasts[title].addr, data)]
    /\ last' = Call("add_episode", title, "", data.id, <<>>, NoError)
    /\ UNCHANGED <<now, query, disk, wr, plainFile, inv, reverse_episode_order>>

PodcastInit == RefreshInit

PodcastNext ==
    \/ Tick
    \/ SetReverseEpisodeOrder("p1")
    \/ \E entries \in Feeds : Refresh("p1", entries)
    \/ \E data \in EpisodeData : AddEpisode("p1", data)
    \/ \E id \in EpisodeIds : Download("p1", id)
    \/ \E id \in EpisodeIds : DownloadRequestFails("p1", id)
    \/ \E id \in EpisodeIds : DownloadStreamFails("p1", id)

PodcastSpec == PodcastInit /\ [][PodcastNext]_vars

\* the number a string of digits stands for
RECURSIVE Num(_)
Num(s) ==
    IF s = <<>> THEN 0
    ELSE 10 * Num(SubSeq(s, 1, Len(s) - 1))
         + (CHOOSE d \in 0..9 : Digits[d + 1] = s[Len(s)])

\* the entry at position i (from 1) is the last of the listing with its store id
LastWithId(entries, i) ==
    \A j \in (i + 1)..Len(entries) : LastSegment(entries[j].id) # LastSegment(entries[i].id)

\* C11: after a refresh that completes, the episode of an entry with an
\* episode-number hint has that number; the episode of an entry without one,
\* at 0-based position i of n entries, has n - i, or i + 1 when
\* reverse_episode_order is set on the podcast.
C11_EpisodeNumbering ==
    [][RefreshCompleted' =>
        LET entries == last'.feed
            n == Len(entries)
            reversed == podcasts[last'.title].addr \in reverse_episode_order
        IN  \A pos \in 1..n : LastWithId(entries, pos) =>
                LET i == pos - 1
                    episode == podcasts'[last'.title].episodes[LastSegment(entries[pos].id)]
                    hint == entries[pos].itunes_episode
                IN  Num(episode.episode_number) =
                        IF hint # None THEN Num(hint)
                        ELSE IF reversed THEN i + 1
                        ELSE n - i]_vars

\* C15: PodcastEpisodes.add with an id the podcast already holds fails and
\* leaves the podcast's episodes as they were.
C15_AddExistingEpisode ==
    [][(/\ last'.op = "add_episode"
        /\ last'.id \in DOMAIN podcasts[last'.title].episodes) =>
            /\ last'.error # NoError
            /\ podcasts' = podcasts]_vars

\* C19: a refresh that completes leaves updated_at at the time of the refresh,
\* not earlier than it was.
C19_RefreshTimestamp ==
    [][RefreshCompleted' =>
        /\ podcasts'[last'.title].updated_at = now
        /\ podcasts'[last'.title].updated_at >= podcasts[last'.title].updated_at]_vars

----------------------------------------------------------------------------
(* Claims on StorePodcasts.rename and StorePodcasts.delete, on StoreSpec *)

\* C12: a rename from a held title to a free one leaves the old title no key,
\* the new title the key of the same podcast with the new title as its title
\* and its episodes as before, and every other podcast as it was.
C12_RenameSuccess ==
    [][(/\ last'.op = "rename"
        /\ last'.title \in DOMAIN podcasts
        /\ last'.other \notin DOMAIN podcasts) =>
            LET old_title == last'.title
                new_title == last'.other
            IN  /\ last'.error = NoError
                /\ DOMAIN podcasts' = (DOMAIN podcasts \ {old_title}) \cup {new_title}
                /\ podcasts'[new_title].addr = podcasts[old_title].addr
                /\ podcasts'[new_title].title = new_title
                /\ podcasts'[new_title].episodes = podcasts[old_title].episodes
                /\ \A k \in DOMAIN podcasts \ {old_title} : podcasts'[k] = podcasts[k]]_vars

\* C13: a rename to a title that is taken raises PodcastExistsError, a rename
\* from a title that is absent (to a free one) raises PodcastDoesNotExistError,
\* and either leaves the store as it was.
C13_RenameErrors ==
    [][last'.op = "rename" =>
        /\ last'.other \in DOMAIN podcasts =>
              last'.error = Some("PodcastExistsError")
        /\ (last'.other \notin DOMAIN podcasts /\ last'.title \notin DOMAIN podcasts) =>
              last'.error = Some("PodcastDoesNotExistError")
        /\ (last'.other \in DOMAIN podcasts \/ last'.title \notin DOMAIN podcasts) =>
              podcasts' = podcasts]_vars

\* a refused rename between two held podcasts that differ, and a refused
\* rename from an absent title in a store that holds a podcast with episodes
C13_Witness ==
    /\ last.op = "rename"
    /\ \/ /\ last.error = Some("PodcastExistsError")
          /\ last.title \in Keys
          /\ last.title # last.other
          /\ podcasts[last.title].episodes # podcasts[last.other].episodes
       \/ /\ last.error = Some("PodcastDoesNotExistError")
          /\ \E k \in Keys : podcasts[k].episodes # <<>>

\* the episodes every podcast of the store lists, as an unconstrained episode
\* filter gathers them
ListedEpisodes(store) ==
    LET found == FilterEpisodes(store, NewFilter("EpisodeFilter", None, <<>>, <<>>))
    IN  Range(found.items)

\* C14: a delete of an absent title raises PodcastDoesNotExistError and
\* changes nothing; a delete of a held title removes the key, leaves no episode
\* of that podcast in the store or in what an episode filter lists, and leaves
\* every other podcast as it was.
C14_DeleteCascade ==
    [][last'.op = "delete" =>
        LET title == last'.title
        IN  IF title \notin DOMAIN podcasts
            THEN /\ last'.error = Some("PodcastDoesNotExistError")
                 /\ podcasts' = podcasts
            ELSE LET gone == podcasts[title].addr
                 IN  /\ last'.error = NoError
                     /\ DOMAIN podcasts' = DOMAIN podcasts \ {title}
                     /\ \A k \in DOMAIN podcasts' : podcasts'[k] = podcasts[k]
                     /\ \A k \in DOMAIN podcasts' : \A id \in DOMAIN podcasts'[k].episodes :
                            podcasts'[k].episodes[id].podcast # gone
                     /\ \A episode \in ListedEpisodes(podcasts') : episode.podcast # gone]_vars

\* a delete of a podcast that held episodes, from a store in which another
\* podcast with episodes remains
C14_Witness ==
    /\ last.op = "delete"
    /\ last.error = NoError
    /\ last.existed # {}
    /\ ListedEpisodes(podcasts) # {}

----------------------------------------------------------------------------
(* Further claims on the encrypted store file handler, on FileSpec *)

\* C16: when write_data has raised, whichever step failed, the store file has
\* the bytes it had before the call.
C16_RollbackOnAnyFailure ==
    wr.pc \in {"failed", "raised"} => Bytes(disk.store) = Bytes(wr.prior)

\* C17: when the gpg run of read_data fails, the error that reaches the caller
\* is GPGCommandError, and the store file is as it was.
C17_ReadFailureTyped ==
    wr.pc = "read_raised" =>
        /\ wr.error = Some("GPGCommandError")
        /\ disk.store = wr.prior

----------------------------------------------------------------------------
(* Claims on a refresh that fails, on RefreshSpec *)

\* the entry has an enclosure of an allowed audio type
HasAllowedAudio(entry) ==
    \E i \in 1..Len(entry.links) : entry.links[i].type \in {"audio/mpeg", "audio/mp3"}

\* the entries that precede the first one that cannot be normalized
PrecedingEntries(entries) ==
    LET bad == {k \in 1..Len(entries) : ~HasAllowedAudio(entries[k])}
    IN  IF bad = {} THEN entries
        ELSE SubSeq(entries, 1, (CHOOSE k \in bad : \A j \in bad : k <= j) - 1)

RefreshFailed == last.op = "refresh" /\ last.error # NoError

\* C18: across a refresh that fails, the episodes held before stay (nothing is
\* pruned), those of no preceding entry are unchanged, each preceding entry's
\* episode is there with the entry's title and time, and with no preceding
\* entry, or a failed fetch, the collection is as before; the error is the one
\* raised.
C18_RefreshFailure ==
    [][RefreshFailed' =>
        LET before == podcasts[last'.title].episodes
            after == podcasts'[last'.title].episodes
            preceding == PrecedingEntries(last'.feed)
        IN  /\ last'.error \in {Some("IndexError"), Some("FetchError")}
            /\ last'.error = Some("FetchError") => last'.feed = <<>>
            /\ DOMAIN after = DOMAIN before \cup NormalizedIds(preceding)
            /\ \A id \in DOMAIN before \ NormalizedIds(preceding) : after[id] = before[id]
            /\ \A pos \in 1..Len(preceding) : LastWithId(preceding, pos) =>
                   LET episode == after[LastSegment(preceding[pos].id)]
                   IN  /\ episode.title = preceding[pos].title
                       /\ episode.created_at = preceding[pos].published_parsed
            /\ preceding = <<>> => after = before]_vars

\* a refresh that failed at its second entry, after the first entry had added
\* an episode, with an episode of no entry still held; and a failed fetch over
\* held episodes
C18_Witness ==
    /\ RefreshFailed
    /\ \/ /\ Len(last.feed) = 2
          /\ NormalizedIds(PrecedingEntries(last.feed)) \ last.existed # {}
          /\ (last.existed \ NormalizedIds(PrecedingEntries(last.feed)))
                 \cap DOMAIN podcasts[last.title].episodes # {}
       \/ /\ last.error = Some("FetchError")
          /\ podcasts[last.title].episodes # <<>>

----------------------------------------------------------------------------
(* Claims on empty filter results, on FilterSpec *)

\* C20: a filter that resolves to nothing (and raises no AttributeError) fails
\* with NoPodcastsFoundError if it is a podcast filter and with
\* NoEpisodesFoundError if it is an episode filter, and a filter that returns
\* gives a list that is not empty.
C20_EmptyResults ==
    (query.kind = "command" /\ query.result.error # Some("AttributeError")) =>
        /\ query.result.error = NoError => query.result.items # <<>>
        /\ query.result.items = <<>> =>
              query.result.error =
                  IF query.filter.cls = "PodcastFilter"
                  THEN Some("NoPodcastsFoundError")
                  ELSE Some("NoEpisodesFoundError")

----------------------------------------------------------------------------
(* Claims on a criterion whose key is no attribute, on FilterSpec *)

\* the attributes Podcast.__init__ and Episode.__init__ set that the keys of
\* this specification can name
AttributeNames(cls) ==
    IF cls = "PodcastFilter" THEN {"title", "feed", "tags"} ELSE {"title", "id", "tags"}

\* the entities the criterion of the filter is applied to: the podcasts of the
\* store, or the episodes of all of them
Entities(cls) ==
    IF cls = "PodcastFilter" THEN {podcasts[k] : k \in Keys}
    ELSE UNION {{podcasts[k].episodes[id] : id \in DOMAIN podcasts[k].episodes} : k \in Keys}

----------------------------------------------------------------------------
(* store.py 129-133 and podcasts.py 79-102: the order of list().  A dict is *)
(* given by its values in insertion order; sorted() is the stable sort of   *)
(* CPython, which for reverse=True reverses the list, sorts it and reverses *)
(* the outcome.                                                             *)

\* number of entities a listed collection holds at most
MaxEntities == 3

\* x put into a list sorted by created_at, behind the elements not after it
RECURSIVE Inserted(_, _)
Inserted(sorted, x) ==
    IF sorted = <<>> THEN <<x>>
    ELSE IF Head(sorted).created_at <= x.created_at
    THEN <<Head(sorted)>> \o Inserted(Tail(sorted), x)
    ELSE <<x>> \o sorted

\* the stable ascending sort by created_at
RECURSIVE StableSorted(_)
StableSorted(values) ==
    IF values = <<>> THEN <<>>
    ELSE Inserted(StableSorted(SubSeq(values, 1, Len(values) - 1)), values[Len(values)])

\* sorted(values, key=lambda e: e.created_at, reverse=reverse)
Sorted(values, reverse) ==
    IF reverse THEN Reversed(StableSorted(Reversed(values))) ELSE StableSorted(values)

\* the collections listed: entities with distinct ids, in insertion order, at
\* times that can coincide
Collections ==
    {values \in UNION {[1..n -> [id : 1..MaxEntities, created_at : 1..2]] : n \in 0..MaxEntities} :
        \A i, j \in 1..Len(values) : i # j => values[i].id # values[j].id}

\* StorePodcasts.list() on a store whose _podcasts holds `values`
ListStorePodcasts(values) ==
    /\ query' = [kind |-> "podcasts", values |-> values, result |-> Sorted(values, FALSE)]
    /\ UNCHANGED <<podcasts, now, last, disk, wr, plainFile, inv, reverse_episode_order>>

\* PodcastEpisodes.list() on a podcast whose _episodes holds `values`
ListPodcastEpisodes(values) ==
    /\ query' = [kind |-> "episodes", values |-> values, result |-> Sorted(values, TRUE)]
    /\ UNCHANGED <<podcasts, now, last, disk, wr, plainFile, inv, reverse_episode_order>>

ListInit == StoreInit

ListNext ==
    \/ \E values \in Collections : ListStorePodcasts(values)
    \/ \E values \in Collections : ListPodcastEpisodes(values)

ListSpec == ListInit /\ [][ListNext]_vars

\* the position of an entity in a sequence that holds it once
Position(values, x) == CHOOSE i \in 1..Len(values) : values[i] = x

\* the result lists the values, each once
ListsAll(values, result) ==
    /\ Len(result) = Len(values)
    /\ Range(result) = Range(values)

\* equal times come in insertion order
TiesInInsertionOrder(values, result) ==
    \A i, j \in 1..Len(result) :
        (i < j /\ result[i].created_at = result[j].created_at) =>
            Position(values, result[i]) < Position(values, result[j])

Ascending(result) ==
    \A i, j \in 1..Len(result) : i < j => result[i].created_at <= result[j].created_at

Descending(result) ==
    \A i, j \in 1..Len(result) : i < j => result[i].created_at >= result[j].created_at

\* C22: list() on the podcasts and list() on the episodes both return every
\* entity once, in ascending created_at, equal times in insertion order.
C22_ListingOrder ==
    query.kind \in {"podcasts", "episodes"} =>
        /\ ListsAll(query.values, query.result)
        /\ Ascending(query.result)
        /\ TiesInInsertionOrder(query.values, query.result)

----------------------------------------------------------------------------
(* episodes.py 23-57: the download state of an episode *)

\* C24: a download that completes sets downloaded_at and removes the tag
\* "new"; a download that fails at any point leaves downloaded_at and the tag
\* "new" as they were.
C24_DownloadState ==
    [][last'.op = "download" =>
        LET before == podcasts[last'.title].episodes[last'.id]
            after == podcasts'[last'.title].episodes[last'.id]
        IN  IF last'.error = NoError
            THEN /\ after.downloaded_at # None
                 /\ "new" \notin Range(after.tags)
            ELSE /\ after.downloaded_at = before.downloaded_at
                 /\ after.tags = before.tags]_vars

----------------------------------------------------------------------------
(* episodes.py 200-206, podcasts.py 217-223: tag and untag on one podcast   *)
(* and its episode                                                          *)

TagNames == {"foo", "bar"}

\* a store as add() leaves it: one podcast with the one episode of its feed
TagInit ==
    /\ podcasts = ("p1" :> [NewPodcast(1, "p1", "u1", 1) EXCEPT
                               !.episodes = RefreshEpisodes(<<>>, 1, <<EntryA>>).episodes])
    /\ now = 1
    /\ last = NoCall
    /\ query = NoQuery
    /\ disk = NoDisk
    /\ wr = NoWrite
    /\ plainFile = None
    /\ inv = NoInvocations
    /\ reverse_episode_order = {}

TagNext ==
    \/ \E t \in TagNames : TagPodcast("p1", t)
    \/ \E t \in TagNames : UntagPodcast("p1", t)
    \/ \E id \in EpisodeIds, t \in TagNames \cup {"new"} : TagEpisode("p1", id, t)
    \/ \E id \in EpisodeIds, t \in TagNames \cup {"new"} : UntagEpisode("p1", id, t)

TagSpec == TagInit /\ [][TagNext]_vars

\* the tag list a tag or untag call works on, in the store given
TagsOf(store, call) ==
    IF call.op \in {"tag_podcast", "untag_podcast"} THEN store[call.title].tags
    ELSE store[call.title].episodes[call.id].tags

\* C23: tag(t) appends t at the end, also when the list has it already;
\* untag(t) leaves no t and keeps the other tags in their order; untag(t) on
\* the outcome of untag(t) changes nothing; untag(t) on the outcome of tag(t)
\* gives the list before the tag exactly when t was not in it.
C23_TagAlgebra ==
    [][LET t == last'.other
           before == TagsOf(podcasts, last')
           after == TagsOf(podcasts', last')
       IN  /\ last'.op \in {"tag_podcast", "tag_episode"} =>
                /\ Len(after) = Len(before) + 1
                /\ SubSeq(after, 1, Len(before)) = before
                /\ after[Len(after)] = t
                /\ (Untagged(after, t) = before) <=> (t \notin Range(before))
           /\ last'.op \in {"untag_podcast", "untag_episode"} =>
                /\ t \notin Range(after)
                /\ after = SelectSeq(before, LAMBDA x : x # t)
                /\ Untagged(after, t) = after]_vars

\* a podcast tagged with the tag it already carried
C23_Witness ==
    /\ last.op = "tag_podcast"
    /\ last.other = "foo"
    /\ podcasts["p1"].tags = <<"foo", "foo">>

----------------------------------------------------------------------------
(* pod_store/commands/tagging.py under save_store_changes: one tagging      *)
(* command on a loaded store.  The filter of the tagger is the one that     *)
(* get_filter_from_command_arguments of filtering.py builds from the        *)
(* arguments passed at lines 305-312.  An item is named by the title of its *)
(* podcast and, for an episode, its id.                                     *)

\* the tag lists given on the command line
CommandTags == {<<"foo">>, <<"foo", "bar">>, <<"foo", "foo">>}

\* the user tags the items carry when the command starts
StartTags == {<<>>, <<"foo">>, <<"foo", "bar">>}

\* the podcast with the tags of its episodes set
WithEpisodeTags(podcast, tags) ==
    [podcast EXCEPT !.episodes =
        [id \in DOMAIN podcast.episodes |->
            [podcast.episodes[id] EXCEPT !.tags = <<"new">> \o tags[id]]]]

\* the stores a command is run on: two podcasts with three episodes
TaggingStores ==
    LET first == StoredPodcast("p1", <<>>, <<EntryB7, EntryA>>)
        second == StoredPodcast("p2", <<>>, <<EntryA>>)
    IN  {("p1" :> WithEpisodeTags([first EXCEPT !.tags = t1], e1)) @@
         ("p2" :> WithEpisodeTags([second EXCEPT !.tags = t2], e2)) :
            t1 \in StartTags, t2 \in StartTags,
            e1 \in [DOMAIN first.episodes -> StartTags],
            e2 \in [DOMAIN second.episodes -> StartTags]}

\* the name of an item that the filter gave
ItemRef(store, item) ==
    IF "feed" \in DOMAIN item
    THEN [title |-> CHOOSE k \in DOMAIN store : store[k].addr = item.addr, id |-> None]
    ELSE [title |-> CHOOSE k \in DOMAIN store : store[k].addr = item.podcast,
          id |-> Some(item.id)]

ItemTags(store, ref) ==
    IF ref.id = None THEN store[ref.title].tags
    ELSE store[ref.title].episodes[ref.id[1]].tags

\* lines 260-265 and 271-276: _perform_tagging of Tagger and of Untagger
RECURSIVE PerformTagging(_, _, _)
PerformTagging(tags, tag_names, is_untagger) ==
    IF tag_names = <<>> THEN tags
    ELSE PerformTagging(IF is_untagger THEN Untagged(tags, Head(tag_names))
                        ELSE Tagged(tags, Head(tag_names)),
                        Tail(tag_names), is_untagger)

\* Mutant: _tag_item gives its message without tagging
TagItemNowhere(store, ref, tag_names, is_untagger) == store

\* lines 253-257: _tag_item
TagItem(store, ref, tag_names, is_untagger) ==
    IF ref.id = None
    THEN [store EXCEPT ![ref.title].tags = PerformTagging(@, tag_names, is_untagger)]
    ELSE [store EXCEPT ![ref.title].episodes[ref.id[1]].tags =
                           PerformTagging(@, tag_names, is_untagger)]

\* lines 208-213 with interactive_mode False: every item is tagged in turn
RECURSIVE TagItems(_, _, _, _)
TagItems(store, refs, tag_names, is_untagger) ==
    IF refs = <<>> THEN store
    ELSE TagItems(TagItem(store, Head(refs), tag_names, is_untagger),
                  Tail(refs), tag_names, is_untagger)

\* Mutant: 'b' leaves interactive mode without tagging the item it was given at
HandleItemInteractivelyBulkSkips(store, ref, tag_names, is_untagger, result) ==
    IF result = "y"
    THEN [store |-> TagItem(store, ref, tag_names, is_untagger),
          interactive_mode |-> TRUE, raised |-> FALSE]
    ELSE IF result = "q"
    THEN [store |-> store, interactive_mode |-> TRUE, raised |-> TRUE]
    ELSE IF result = "b"
    THEN [store |-> store, interactive_mode |-> FALSE, raised |-> FALSE]
    ELSE [store |-> store, interactive_mode |-> TRUE, raised |-> FALSE]

\* lines 215-251 for the answers y, q, b and n: the store, the mode returned,
\* and whether click.Abort was raised
HandleItemInteractively(store, ref, tag_names, is_untagger, result) ==
    IF result = "y"
    THEN [store |-> TagItem(store, ref, tag_names, is_untagger),
          interactive_mode |-> TRUE, raised |-> FALSE]
    ELSE IF result = "q"
    THEN [store |-> store, interactive_mode |-> TRUE, raised |-> TRUE]
    ELSE IF result = "b"
    THEN [store |-> TagItem(store, ref, tag_names, is_untagger),
          interactive_mode |-> FALSE, raised |-> FALSE]
    ELSE [store |-> store, interactive_mode |-> TRUE, raised |-> FALSE]

\* lines 282-324: the filter of the tagger
TaggerFilter(tag_names, tag_episodes, is_untagger) ==
    GetFilterFromCommandArguments(Some(tag_episodes), None,
                                  IF is_untagger THEN tag_names ELSE <<>>,
                                  IF is_untagger THEN <<>> ELSE tag_names,
                                  <<>>, <<>>)

\* StorePodcasts.to_json, written by json.dump
StoreFile(store) == Some(Json(store))

\* Mutant: the save runs also when the body raised
SaveStoreChangesAlways(file, store, raised) == [file |-> StoreFile(store), saves |-> 1]

\* decorators.py 154-157: the file after the wrapper, and the calls of Store.save
SaveStoreChanges(file, store, raised) ==
    IF raised THEN [file |-> file, saves |-> 0]
    ELSE [file |-> StoreFile(store), saves |-> 1]

\* the command with its tagger: what it was given, the items of its filter,
\* the index of the next item, the items prompted for and the answers taken
Command(tag_names, tag_episodes, is_untagger, interactive, repeat) ==
    [kind |-> "tagging", tags |-> tag_names, tag_episodes |-> tag_episodes,
     is_untagger |-> is_untagger, interactive |-> interactive, repeat |-> repeat,
     start |-> podcasts, file |-> plainFile,
     items |-> <<>>, pos |-> 1, prompts |-> <<>>, answers |-> <<>>, helped |-> FALSE,
     interactive_mode |-> interactive, pc |-> "running", error |-> NoError, saves |-> 0]

\* the command starts: the tagger is built and tag_items reaches its loop; a
\* filter that raises ends the command, a bulk run tags every item and
\* returns, an interactive run stops at its first prompt
TagCommand(tag_names, tag_episodes, is_untagger, interactive) ==
    LET repeat == /\ query.kind = "tagging"
                  /\ query.tags = tag_names
                  /\ query.tag_episodes = tag_episodes
                  /\ query.is_untagger = is_untagger
        found == Items(podcasts, TaggerFilter(tag_names, tag_episodes, is_untagger))
        refs == [i \in DOMAIN found.items |-> ItemRef(podcasts, found.items[i])]
        command == Command(tag_names, tag_episodes, is_untagger, interactive, repeat)
    IN  /\ \/ query.kind = "none"
           \/ /\ repeat
              /\ ~interactive
              /\ ~query.interactive
              /\ ~query.repeat
              /\ query.pc = "done"
        /\ IF found.error # NoError
           THEN LET saved == SaveStoreChanges(plainFile, podcasts, TRUE)
                IN  /\ query' = [command EXCEPT !.pc = "failed", !.error = found.error,
                                                !.saves = saved.saves]
                    /\ plainFile' = saved.file
                    /\ podcasts' = podcasts
           ELSE IF interactive
           THEN /\ query' = [command EXCEPT !.items = refs, !.prompts = <<1>>]
                /\ UNCHANGED <<podcasts, plainFile>>
           ELSE LET store == TagItems(podcasts, refs, tag_names, is_untagger)
                    saved == SaveStoreChanges(plainFile, store, FALSE)
                IN  /\ query' = [command EXCEPT !.items = refs, !.pos = Len(refs) + 1,
                                                !.pc = "done", !.saves = saved.saves]
                    /\ plainFile' = saved.file
                    /\ podcasts' = store
        /\ UNCHANGED <<now, last, disk, wr, inv, reverse_episode_order>>

\* lines 234-240: 'h' shows the help and prompts for the same item again
AnswerHelp ==
    /\ query.kind = "tagging"
    /\ query.pc = "running"
    /\ ~query.helped
    /\ query' = [query EXCEPT !.helped = TRUE, !.prompts = Append(@, query.pos)]
    /\ UNCHANGED <<podcasts, plainFile, now, last, disk, wr, inv, reverse_episode_order>>

\* the user answers the prompt: the item is handled, and the loop goes on to
\* the next prompt, to the end of the items, or out of the command
Answer(result) ==
    /\ query.kind = "tagging"
    /\ query.pc = "running"
    /\ LET handled == HandleItemInteractively(podcasts, query.items[query.pos],
                                              query.tags, query.is_untagger, result)
           rest == SubSeq(query.items, query.pos + 1, Len(query.items))
           answered == [query EXCEPT !.answers = Append(@, result), !.helped = FALSE,
                                     !.interactive_mode = handled.interactive_mode]
       IN  IF handled.raised
           THEN LET saved == SaveStoreChanges(plainFile, handled.store, TRUE)
                IN  /\ query' = [answered EXCEPT !.pc = "aborted", !.saves = saved.saves]
                    /\ plainFile' = saved.file
                    /\ podcasts' = handled.store
           ELSE IF handled.interactive_mode /\ rest # <<>>
           THEN /\ query' = [answered EXCEPT !.pos = @ + 1,
                                             !.prompts = Append(@, query.pos + 1)]
                /\ podcasts' = handled.store
                /\ plainFile' = plainFile
           ELSE LET store == IF handled.interactive_mode THEN handled.store
                             ELSE TagItems(handled.store, rest, query.tags,
                                           query.is_untagger)
                    saved == SaveStoreChanges(plainFile, store, FALSE)
                IN  /\ query' = [answered EXCEPT !.pos = Len(query.items) + 1,
                                                 !.pc = "done", !.saves = saved.saves]
                    /\ plainFile' = saved.file
                    /\ podcasts' = store
    /\ UNCHANGED <<now, last, disk, wr, inv, reverse_episode_order>>

TaggingInit ==
    /\ podcasts \in TaggingStores
    /\ plainFile = StoreFile(podcasts)
    /\ query = NoQuery
    /\ now = 1
    /\ last = NoCall
    /\ disk = NoDisk
    /\ wr = NoWrite
    /\ inv = NoInvocations
    /\ reverse_episode_order = {}

TaggingNext ==
    \/ \E tag_names \in CommandTags, tag_episodes \in BOOLEAN, is_untagger \in BOOLEAN,
          interactive \in BOOLEAN :
            TagCommand(tag_names, tag_episodes, is_untagger, interactive)
    \/ AnswerHelp
    \/ \E result \in {"y", "n", "b", "q"} : Answer(result)

TaggingSpec == TaggingInit /\ [][TaggingNext]_vars

\* the item carries what the tagger does: every tag of a tagger, none of an
\* untagger
Acted(ref) ==
    \A t \in Range(query.tags) :
        (t \in Range(ItemTags(podcasts, ref))) = ~query.is_untagger

\* the item has the tags it had when the command started
Untouched(ref) == ItemTags(podcasts, ref) = ItemTags(query.start, ref)

\* C25: once the user has answered 'b' at an item, that item and every later
\* item is tagged, no later item is prompted for and the session is over;
\* the items answered 'n' before are untagged as they were.
C25_SwitchToBulk ==
    (/\ query.kind = "tagging"
     /\ "b" \in Range(query.answers)) =>
        LET k == Len(query.answers)
        IN  /\ query.answers[k] = "b"
            /\ query.pc = "done"
            /\ \A i \in k..Len(query.items) : Acted(query.items[i])
            /\ \A i \in DOMAIN query.prompts : query.prompts[i] <= k
            /\ \A i \in 1..(k - 1) :
                   query.answers[i] = "n" => Untouched(query.items[i])

\* 'n' at the first of three episodes, 'b' at the second
C25_Witness ==
    /\ query.kind = "tagging"
    /\ query.answers = <<"n", "b">>
    /\ Len(query.items) = 3
    /\ ~query.is_untagger

\* C26: once the user has answered 'q' at an item, that item and every later
\* item is as it was, no later item is prompted for and the session is over;
\* the items answered 'y' before carry the tag in memory and the items
\* answered 'n' are as they were.
C26_Quit ==
    (/\ query.kind = "tagging"
     /\ "q" \in Range(query.answers)) =>
        LET k == Len(query.answers)
        IN  /\ query.answers[k] = "q"
            /\ query.pc = "aborted"
            /\ \A i \in k..Len(query.items) : Untouched(query.items[i])
            /\ \A i \in DOMAIN query.prompts : query.prompts[i] <= k
            /\ \A i \in 1..(k - 1) :
                   /\ query.answers[i] = "y" => Acted(query.items[i])
                   /\ query.answers[i] = "n" => Untouched(query.items[i])

\* 'y' at the first of three episodes, 'n' at the second, 'q' at the third
C26_Witness ==
    /\ query.kind = "tagging"
    /\ query.answers = <<"y", "n", "q">>
    /\ Len(query.items) = 3
    /\ ~query.is_untagger

RECURSIVE Occurrences(_, _)
Occurrences(tags, t) ==
    IF tags = <<>> THEN 0
    ELSE (IF Head(tags) = t THEN 1 ELSE 0) + Occurrences(Tail(tags), t)

----------------------------------------------------------------------------
(* store.py 100-115: add and the refresh inside it *)

\* the call was an add whose refresh failed
AddRefreshFailed(call) ==
    /\ call.op = "add"
    /\ call.error \notin {NoError, Some("PodcastExistsError")}

\* C27: an add whose refresh fails, at the fetch or at an entry, leaves the
\* podcasts as they were and the title not filed, and an add of the same
\* title right after it does not fail with PodcastExistsError.
C27_AddAllOrNothing ==
    [][/\ AddRefreshFailed(last') =>
            /\ podcasts' = podcasts
            /\ last'.title \notin DOMAIN podcasts'
       /\ (AddRefreshFailed(last) /\ last'.op = "add" /\ last'.title = last.title) =>
            last'.error # Some("PodcastExistsError")]_vars

\* an add that failed at an entry of the feed, on a store that holds another
\* podcast
C27_Witness ==
    /\ AddRefreshFailed(last)
    /\ last.feed = <<BadEntry>>
    /\ last.title \notin Keys
    /\ Keys # {}

----------------------------------------------------------------------------
(* podcasts.py 192-210: episode numbers over two refreshes *)

\* `listing` is `previous` with zero or more entries put in front of it
GrownAtFront(listing, previous) ==
    /\ Len(listing) >= Len(previous)
    /\ SubSeq(listing, Len(listing) - Len(previous) + 1, Len(listing)) = previous

\* the entries in front are of episodes that `previous` does not list
NewEpisodesInFront(listing, previous) ==
    \A i \in 1..(Len(listing) - Len(previous)) :
        LastSegment(listing[i].id) \notin NormalizedIds(previous)

\* no entry of the listing gives the episode a number
Unhinted(listing, id) ==
    \A i \in 1..Len(listing) :
        LastSegment(listing[i].id) = id => listing[i].itunes_episode = None

\* the episodes held before the refresh without a number from the feed are
\* held after it with the same episode_number
NumbersKept ==
    LET before == podcasts[last'.title].episodes
        after == podcasts'[last'.title].episodes
    IN  \A id \in DOMAIN before :
            Unhinted(last.feed, id) =>
                /\ id \in DOMAIN after
                /\ after[id].episode_number = before[id].episode_number

====
